---- MODULE Spec2Model ----
(***************************************************************************)
(* Model of the SDOH detection engine (server/src/services/sdohEngine.ts): *)
(* the pattern catalog, matchPatterns, determineStatus, adjustConfidence,  *)
(* mergeIssues, callOpenAI and detectConversation.                         *)
(*                                                                         *)
(* Texts are sequences of words.  A regular expression of the source is a  *)
(* set of alternatives; an alternative is a sequence of segments separated *)
(* by ".*"; a segment is a sequence of adjacent words.  Confidences are    *)
(* integers in hundredths (0.78 is 78), so toFixed(2) is exact.            *)
(***************************************************************************)
EXTENDS Integers, Sequences, FiniteSets, TLC

\* ------------------------------------------------------------------ bounds
MaxLines == 3
ShortLines == 1

\* ------------------------------------------------------ absent JS values
Missing == "<undefined>"

\* --------------------------------------------------------- text helpers
\* String.prototype.toLowerCase and the /i flag, on the words of the model
LowerWord(w) ==
    CASE w = "My" -> "my"
      [] w = "Mi" -> "mi"
      [] w = "We" -> "we"
      [] w = "The" -> "the"
      [] w = "I" -> "i"
      [] w = "Estamos" -> "estamos"
      [] w = "Tuesday" -> "tuesday"
      [] OTHER -> w

toLowerCase(text) == [i \in 1..Len(text) |-> LowerWord(text[i])]

\* the words of the model that contain a shorter fragment as a substring
Contains ==
    { <<"unresolved", "resolved">>, <<"meals", "meal">>,
      <<"eviction", "evict">>, <<"evicted", "evict">>,
      <<"urgently", "urgent">> }

WordHas(w, frag) == w = frag \/ <<w, frag>> \in Contains

SegAt(seg, text, i) ==
    /\ i + Len(seg) - 1 <= Len(text)
    /\ \A k \in 1..Len(seg) : WordHas(text[i + k - 1], seg[k])

RECURSIVE MatchFrom(_, _, _)
MatchFrom(segs, text, start) ==
    IF segs = <<>> THEN TRUE
    ELSE \E i \in start..Len(text) :
            /\ SegAt(Head(segs), text, i)
            /\ MatchFrom(Tail(segs), text, i + Len(Head(segs)))

\* RegExp.prototype.test with the /i flag
RegexTest(regex, text) == \E alt \in regex : MatchFrom(alt, toLowerCase(text), 1)

\* a regular expression without ".*" that is one phrase
Phrase(words) == { << words >> }
\* a regular expression that is a choice of phrases
Phrases(set) == { << p >> : p \in set }
\* a regular expression "first.*second"
Gap(first, second) == { << first, second >> }

\* String.prototype.trim: the blank word " " stands for surrounding blanks
RECURSIVE TrimLeft(_)
TrimLeft(text) ==
    IF text # <<>> /\ Head(text) = " " THEN TrimLeft(Tail(text)) ELSE text

RECURSIVE TrimRight(_)
TrimRight(text) ==
    IF text # <<>> /\ text[Len(text)] = " "
    THEN TrimRight(SubSeq(text, 1, Len(text) - 1)) ELSE text

trim(text) == TrimRight(TrimLeft(text))

\* ------------------------------------------------------ pattern catalog
BASE_PATTERNS ==
    << [ code |-> "Z59.82", label |-> "Transportation insecurity",
         domain |-> "transportation",
         keywords |->
            Phrases({<<"no", "ride">>, <<"no", "car">>})
              \cup Gap(<<"bus", "pass">>, <<"expired">>)
              \cup Gap(<<"miss", "appointment">>, <<"transport">>)
              \cup Gap(<<"missed", "appointment">>, <<"transport">>)
              \cup Phrase(<<"need", "help", "getting", "to", "appointments">>),
         translations |->
            [ es |-> Phrases({<<"no", "tengo", "coche">>, <<"no", "tengo", "carro">>,
                              <<"no", "tengo", "transporte">>})
                       \cup Gap(<<"necesito">>, <<"transporte">>),
              fr |-> Phrase(<<"pas", "de", "transport">>) ],
         severity |-> "moderate", urgency |-> "medium",
         defaultConfidence |-> 72, estimatedRevenue |-> 85 ],
       [ code |-> "Z59.1", label |-> "Inadequate housing utilities",
         domain |-> "housing",
         keywords |->
            Phrases({<<"utility", "shut", "off">>, <<"utilities", "shut", "off">>,
                     <<"utility", "turned", "off">>, <<"utilities", "turned", "off">>,
                     <<"electricity", "shut", "off">>,
                     <<"electricity", "got", "shut", "off">>,
                     <<"without", "power">>}),
         translations |->
            [ es |-> Phrases({<<"sin", "luz">>, <<"sin", "electricidad">>}),
              fr |-> Phrase(<<"sans", "électricité">>) ],
         severity |-> "high", urgency |-> "high",
         defaultConfidence |-> 78, estimatedRevenue |-> 110 ],
       [ code |-> "Z59.01", label |-> "Sheltered homelessness",
         domain |-> "housing",
         keywords |->
            Phrases({<<"sleeping", "in", "my", "car">>, <<"sleeping", "in", "a", "car">>,
                     <<"living", "in", "shelter">>, <<"living", "in", "a", "shelter">>,
                     <<"staying", "in", "the", "shelter">>}),
         translations |->
            [ es |-> Phrases({<<"durmiendo", "en", "mi", "carro">>,
                              <<"vivo", "en", "un", "refugio">>}),
              fr |-> Phrase(<<"je", "dors", "dans", "ma", "voiture">>) ],
         severity |-> "high", urgency |-> "high",
         defaultConfidence |-> 83, estimatedRevenue |-> 145 ],
       [ code |-> "Z59.86", label |-> "Financial insecurity",
         domain |-> "financial",
         keywords |->
            Phrases({<<"can't", "afford", "meds">>, <<"can't", "afford", "my", "meds">>,
                     <<"can't", "afford", "medications">>,
                     <<"can't", "afford", "my", "medications">>})
              \cup Gap(<<"ran", "out", "of", "money">>, <<"meds">>)
              \cup Gap(<<"copay">>, <<"too", "high">>)
              \cup Gap(<<"co-pay">>, <<"too", "high">>),
         translations |->
            [ es |-> Phrase(<<"no", "puedo", "pagar", "mis", "medicinas">>)
                       \cup Gap(<<"medicamentos">>, <<"muy", "caros">>),
              fr |-> Phrase(<<"je", "ne", "peux", "pas", "payer", "mes", "médicaments">>) ],
         severity |-> "moderate", urgency |-> "medium",
         defaultConfidence |-> 70, estimatedRevenue |-> 92 ],
       [ code |-> "Z59.41", label |-> "Food insecurity",
         domain |-> "nutrition",
         keywords |->
            Phrases({<<"food", "bank">>, <<"miss", "meal">>, <<"missed", "meal">>,
                     <<"empty", "fridge">>, <<"no", "groceries">>}),
         translations |->
            [ es |-> Phrases({<<"banco", "de", "alimentos">>, <<"sin", "comida">>,
                              <<"nevera", "vacía">>}),
              fr |-> Phrase(<<"banque", "alimentaire">>) ],
         severity |-> "high", urgency |-> "high",
         defaultConfidence |-> 80, estimatedRevenue |-> 125 ],
       [ code |-> "Z59.81", label |-> "Housing instability",
         domain |-> "housing",
         keywords |->
            Gap(<<"landlord">>, <<"evict">>)
              \cup Phrases({<<"facing", "eviction">>, <<"notice", "to", "vacate">>,
                            <<"behind", "on", "rent">>}),
         translations |->
            [ es |-> Phrase(<<"desalojo">>)
                       \cup Gap(<<"mi", "casero">>, <<"me", "va", "sacar">>)
                       \cup Gap(<<"mi", "casero">>, <<"me", "quiere", "sacar">>),
              fr |-> Phrase(<<"expulsion">>) ],
         severity |-> "high", urgency |-> "medium",
         defaultConfidence |-> 77, estimatedRevenue |-> 130 ] >>

Codes == { BASE_PATTERNS[i].code : i \in 1..Len(BASE_PATTERNS) }

RESOLVED_HINTS ==
    Phrases({<<"no", "longer">>, <<"got", "handled">>, <<"got", "it", "handled">>,
             <<"resolved">>, <<"taken", "care", "of">>})

HISTORICAL_HINTS == Phrases({<<"last", "year">>, <<"used", "to">>, <<"previously">>})

URGENT_HINTS == Phrases({<<"right", "now">>, <<"urgent">>, <<"emergency">>, <<"tonight">>})

HEDGE_HINTS == Phrases({<<"maybe">>, <<"might">>, <<"not", "sure">>, <<"possibly">>})

\* ---------------------------------------------------- language handling
LANGUAGE_ALIASES ==
    [ k \in {"es", "spa", "español", "en", "eng", "english", "fr", "fra", "français"} |->
        CASE k \in {"es", "spa", "español"} -> "es"
          [] k \in {"en", "eng", "english"} -> "en"
          [] OTHER -> "fr" ]

\* String.prototype.toLowerCase on the language tags of the model
LowerTag(lang) ==
    CASE lang = "EN" -> "en"
      [] lang = "Spa" -> "spa"
      [] lang = "pt-BR" -> "pt-br"
      [] OTHER -> lang

\* key.slice(0, 2) on the lower-cased language tags of the model
Slice2(key) ==
    CASE key = "pt-br" -> "pt"
      [] key = "spa" -> "sp"
      [] key = "eng" -> "en"
      [] OTHER -> key

normalizeLanguage(lang) ==
    IF lang = Missing \/ lang = "" THEN Missing
    ELSE LET key == LowerTag(lang)
         IN  IF key \in DOMAIN LANGUAGE_ALIASES THEN LANGUAGE_ALIASES[key]
             ELSE Slice2(key)

\* the words of the model that carry one of the characters of /[áéíóúñ¡¿]/i
DiacriticWords == {"está", "vacía", "español", "électricité", "médicaments"}

HasSpanishMark(text) == \E i \in 1..Len(text) : text[i] \in DiacriticWords

\* ------------------------------------------------------------ classifier
\* a bug that tests the past-reference cues first
determineStatus_HistoricalFirst(text) ==
    IF RegexTest(HISTORICAL_HINTS, text) THEN "historical"
    ELSE IF RegexTest(RESOLVED_HINTS, text) THEN "resolved"
    ELSE "current"

determineStatus(text) ==
    IF RegexTest(RESOLVED_HINTS, text) THEN "resolved"
    ELSE IF RegexTest(HISTORICAL_HINTS, text) THEN "historical"
    ELSE "current"

\* the elements of a sequence
Range(seq) == { seq[i] : i \in 1..Len(seq) }

Min(a, b) == IF a <= b THEN a ELSE b
Max(a, b) == IF a >= b THEN a ELSE b

\* a bug that skips the hedging cue on a line with an urgency cue
adjustConfidence_ElseIf(base, text) ==
    LET c2 == IF RegexTest(URGENT_HINTS, text) THEN base + 8
              ELSE IF RegexTest(HEDGE_HINTS, text) THEN base - 12 ELSE base
    IN  Max(40, Min(98, c2))

adjustConfidence(base, text) ==
    LET c1 == IF RegexTest(URGENT_HINTS, text) THEN base + 8 ELSE base
        c2 == IF RegexTest(HEDGE_HINTS, text) THEN c1 - 12 ELSE c1
    IN  Max(40, Min(98, c2))

\* --------------------------------------------------------------- matcher
\* label.toLowerCase() on the labels of the catalog
LabelLower(label) ==
    CASE label = "Transportation insecurity" -> "transportation insecurity"
      [] label = "Inadequate housing utilities" -> "inadequate housing utilities"
      [] label = "Sheltered homelessness" -> "sheltered homelessness"
      [] label = "Financial insecurity" -> "financial insecurity"
      [] label = "Food insecurity" -> "food insecurity"
      [] label = "Housing instability" -> "housing instability"
      [] OTHER -> label

\* the matcher pool of a pattern for a normalized language
Pools(pattern, normalizedLanguage) ==
    IF normalizedLanguage # Missing /\ normalizedLanguage \in DOMAIN pattern.translations
    THEN pattern.keywords \cup pattern.translations[normalizedLanguage]
    ELSE pattern.keywords

PatternMatched(pattern, message) ==
    RegexTest(Pools(pattern, normalizeLanguage(message.language)), message.text)

\* the IssueMatch that matchPatterns pushes for a matching pattern
MatchOf(pattern, message) ==
    LET normalizedLanguage == normalizeLanguage(message.language)
    IN  [ code |-> pattern.code,
          label |-> pattern.label,
          domain |-> pattern.domain,
          severity |-> pattern.severity,
          urgency |-> pattern.urgency,
          status |-> determineStatus(message.text),
          confidence |-> adjustConfidence(pattern.defaultConfidence, message.text),
          evidence |-> << [ quote |-> trim(message.text),
                            speaker |-> message.speaker,
                            timestamp |-> message.timestamp,
                            language |-> normalizedLanguage ] >>,
          rationale |-> [ phrases |-> LabelLower(pattern.label),
                          language |-> IF normalizedLanguage = Missing
                                       THEN "en" ELSE normalizedLanguage ],
          estimatedRevenue |-> pattern.estimatedRevenue ]

\* the loop of matchPatterns over the catalog as it stands
RECURSIVE MatchLoop(_, _, _)
MatchLoop(patterns, i, message) ==
    IF i > Len(patterns) THEN <<>>
    ELSE IF PatternMatched(patterns[i], message)
         THEN << MatchOf(patterns[i], message) >> \o MatchLoop(patterns, i + 1, message)
         ELSE MatchLoop(patterns, i + 1, message)

matchPatterns(patterns, message) == MatchLoop(patterns, 1, message)

\* a bug that pushes the translations onto the keywords of the catalog
PoolsWritten_Aliased(pattern, normalizedLanguage) ==
    [ pattern EXCEPT !.keywords = Pools(pattern, normalizedLanguage) ]

\* a pattern of the catalog after matchPatterns has built its pool: the pool
\* is a copy of the keywords, the translations are pushed onto the copy
PoolsWritten(pattern, normalizedLanguage) == pattern

\* the catalog after matchPatterns has run on a line
CatalogAfter(patterns, message) ==
    [ i \in 1..Len(patterns) |->
        PoolsWritten(patterns[i], normalizeLanguage(message.language)) ]

\* message.text.toLowerCase() and message.text.split(...) throw a TypeError on
\* a line without text
TextThrows(message) == ~message.hasText

\* ---------------------------------------------------------------- merger
\* Map.prototype.get: the index of a code in the insertion-ordered map, or 0
IndexOfCode(byCode, code) ==
    IF \E i \in 1..Len(byCode) : byCode[i].code = code
    THEN CHOOSE i \in 1..Len(byCode) : byCode[i].code = code
    ELSE 0

\* Map.prototype.set: replaces in place, or appends a new key
MapSet(byCode, issue) ==
    LET i == IndexOfCode(byCode, issue.code)
    IN  IF i = 0 THEN Append(byCode, issue)
        ELSE [byCode EXCEPT ![i] = issue]

RECURSIVE MapFromList(_, _)
MapFromList(byCode, list) ==
    IF list = <<>> THEN byCode
    ELSE MapFromList(MapSet(byCode, Head(list)), Tail(list))

\* a bug that lets the incoming status win over an existing current
Combine_IncomingStatus(current, issue) ==
    [ current EXCEPT
        !.confidence = Max(current.confidence, issue.confidence),
        !.severity = IF issue.severity = "high" \/ current.severity = "high"
                     THEN "high" ELSE current.severity,
        !.urgency = IF issue.urgency = "high" \/ current.urgency = "high"
                    THEN "high" ELSE current.urgency,
        !.status = issue.status,
        !.evidence = current.evidence \o issue.evidence,
        !.rationale = issue.rationale,
        !.estimatedRevenue = Max(current.estimatedRevenue, issue.estimatedRevenue) ]

\* a bug that drops an incoming evidence entry the finding already holds
Combine_DedupEvidence(current, issue) ==
    [ current EXCEPT
        !.confidence = Max(current.confidence, issue.confidence),
        !.severity = IF issue.severity = "high" \/ current.severity = "high"
                     THEN "high" ELSE current.severity,
        !.urgency = IF issue.urgency = "high" \/ current.urgency = "high"
                    THEN "high" ELSE current.urgency,
        !.status = IF current.status = "current" \/ issue.status = "current"
                   THEN "current" ELSE issue.status,
        !.evidence = current.evidence \o
                       SelectSeq(issue.evidence,
                                 LAMBDA e : \A k \in 1..Len(current.evidence) :
                                               current.evidence[k] # e),
        !.rationale = issue.rationale,
        !.estimatedRevenue = Max(current.estimatedRevenue, issue.estimatedRevenue) ]

\* a bug that takes the incoming severity and urgency when neither is high
Combine_IncomingGrade(current, issue) ==
    [ current EXCEPT
        !.confidence = Max(current.confidence, issue.confidence),
        !.severity = IF issue.severity = "high" \/ current.severity = "high"
                     THEN "high" ELSE issue.severity,
        !.urgency = IF issue.urgency = "high" \/ current.urgency = "high"
                    THEN "high" ELSE issue.urgency,
        !.status = IF current.status = "current" \/ issue.status = "current"
                   THEN "current" ELSE issue.status,
        !.evidence = current.evidence \o issue.evidence,
        !.rationale = issue.rationale,
        !.estimatedRevenue = Max(current.estimatedRevenue, issue.estimatedRevenue) ]

\* a bug that takes the incoming confidence
Combine_IncomingConfidence(current, issue) ==
    [ current EXCEPT
        !.confidence = issue.confidence,
        !.severity = IF issue.severity = "high" \/ current.severity = "high"
                     THEN "high" ELSE current.severity,
        !.urgency = IF issue.urgency = "high" \/ current.urgency = "high"
                    THEN "high" ELSE current.urgency,
        !.status = IF current.status = "current" \/ issue.status = "current"
                   THEN "current" ELSE issue.status,
        !.evidence = current.evidence \o issue.evidence,
        !.rationale = issue.rationale,
        !.estimatedRevenue = Max(current.estimatedRevenue, issue.estimatedRevenue) ]

\* a bug that keeps the existing status when neither side is current
Combine_KeepStatus(current, issue) ==
    [ current EXCEPT
        !.confidence = Max(current.confidence, issue.confidence),
        !.severity = IF issue.severity = "high" \/ current.severity = "high"
                     THEN "high" ELSE current.severity,
        !.urgency = IF issue.urgency = "high" \/ current.urgency = "high"
                    THEN "high" ELSE current.urgency,
        !.status = IF current.status = "current" \/ issue.status = "current"
                   THEN "current" ELSE current.status,
        !.evidence = current.evidence \o issue.evidence,
        !.rationale = issue.rationale,
        !.estimatedRevenue = Max(current.estimatedRevenue, issue.estimatedRevenue) ]

\* the body of the loop over the incoming issues for a code already present
Combine(current, issue) ==
    LET combinedConfidence == Max(current.confidence, issue.confidence)
    IN  [ current EXCEPT
            !.confidence = Max(combinedConfidence, current.confidence),
            !.severity = IF issue.severity = "high" \/ current.severity = "high"
                         THEN "high" ELSE current.severity,
            !.urgency = IF issue.urgency = "high" \/ current.urgency = "high"
                        THEN "high" ELSE current.urgency,
            !.status = IF current.status = "current" \/ issue.status = "current"
                       THEN "current" ELSE issue.status,
            !.evidence = current.evidence \o issue.evidence,
            !.rationale = issue.rationale,
            !.estimatedRevenue = Max(current.estimatedRevenue, issue.estimatedRevenue) ]

RECURSIVE MergeLoop(_, _)
MergeLoop(byCode, incoming) ==
    IF incoming = <<>> THEN byCode
    ELSE LET issue == Head(incoming)
             i == IndexOfCode(byCode, issue.code)
         IN  IF i = 0
             THEN MergeLoop(Append(byCode, issue), Tail(incoming))
             ELSE MergeLoop([byCode EXCEPT ![i] = Combine(byCode[i], issue)],
                            Tail(incoming))

\* a bug that forgets the 0.99 ceiling
Bonus_NoCeiling(issue) ==
    [ issue EXCEPT !.confidence =
        issue.confidence + Min(Len(issue.evidence) * 2, 10) ]

\* the final map over the values of the map: the recency bonus
Bonus(issue) ==
    [ issue EXCEPT !.confidence =
        Min(issue.confidence + Min(Len(issue.evidence) * 2, 10), 99) ]

\* a bug that gives the bonus only to the codes of the incoming findings
mergeIssues_BonusIncomingOnly(existing, incoming) ==
    LET byCode == MergeLoop(MapFromList(<<>>, existing), incoming)
    IN  [ i \in 1..Len(byCode) |->
            IF \E k \in 1..Len(incoming) : incoming[k].code = byCode[i].code
            THEN Bonus(byCode[i]) ELSE byCode[i] ]

mergeIssues(existing, incoming) ==
    LET byCode == MergeLoop(MapFromList(<<>>, existing), incoming)
    IN  [ i \in 1..Len(byCode) |-> Bonus(byCode[i]) ]

\* ----------------------------------------------------------- synthesizer
\* generateNarrative: the parameters of the templated text
generateNarrative(memberId, issues, languages) ==
    LET member == IF memberId = Missing THEN "member" ELSE memberId
    IN  IF Len(issues) = 0
        THEN [ kind |-> "noRisk", member |-> member, languages |-> <<>>,
               count |-> 0, summaries |-> <<>> ]
        ELSE [ kind |-> "review", member |-> member, languages |-> languages,
               count |-> Len(issues),
               summaries |->
                 [ i \in 1..Len(issues) |->
                     [ label |-> issues[i].label, code |-> issues[i].code,
                       remains |-> IF issues[i].status = "current"
                                   THEN "active" ELSE issues[i].status,
                       severity |-> issues[i].severity,
                       urgency |-> issues[i].urgency ] ] ]

RECURSIVE FlatEvidence(_)
FlatEvidence(issues) ==
    IF issues = <<>> THEN <<>>
    ELSE Head(issues).evidence \o FlatEvidence(Tail(issues))

buildDocumentation(request, issues, languages) ==
    [ structured |->
        [ memberId |-> request.memberId,
          languages |-> languages,
          issues |-> [ i \in 1..Len(issues) |->
                         [ code |-> issues[i].code, label |-> issues[i].label,
                           severity |-> issues[i].severity,
                           urgency |-> issues[i].urgency,
                           status |-> issues[i].status,
                           confidence |-> issues[i].confidence,
                           evidenceCount |-> Len(issues[i].evidence) ] ] ],
      narrative |-> generateNarrative(request.memberId, issues, languages),
      recommendedCodes |-> [ i \in 1..Len(issues) |->
                               [ code |-> issues[i].code, label |-> issues[i].label,
                                 confidence |-> issues[i].confidence,
                                 severity |-> issues[i].severity,
                                 urgency |-> issues[i].urgency ] ],
      evidence |-> FlatEvidence(issues) ]

RECURSIVE HighUrgencyAlerts(_, _)
HighUrgencyAlerts(request, issues) ==
    IF issues = <<>> THEN <<>>
    ELSE IF Head(issues).urgency = "high"
         THEN << [ memberId |-> request.memberId, about |-> Head(issues).label,
                   message |-> "requires follow-up within 48 hours",
                   severity |-> "critical" ] >>
              \o HighUrgencyAlerts(request, Tail(issues))
         ELSE HighUrgencyAlerts(request, Tail(issues))

WarningAlert(request) ==
    [ memberId |-> request.memberId, about |-> "member",
      message |-> "due for annual SDOH screening", severity |-> "warning" ]

\* a bug that warns whenever no finding is urgent
Alerts_WarnWithoutHigh(request, issues) ==
    LET alerts == HighUrgencyAlerts(request, issues)
    IN  IF Len(alerts) = 0 THEN << WarningAlert(request) >> ELSE alerts

\* the alerts of the compliance summary
Alerts(request, issues) ==
    LET needsScreening == Len(issues) = 0
        alerts == HighUrgencyAlerts(request, issues)
    IN  IF Len(alerts) = 0 /\ needsScreening
        THEN << WarningAlert(request) >>
        ELSE alerts

\* an optional field of an object: <<>> when absent, <<v>> when present
Or(opt, default) == IF opt = <<>> THEN default ELSE opt[1]

\* context?.completedScreenings ?? 15 and context?.requiredScreenings ?? 20
Completed(request) == Or(request.context.completedScreenings, 15)
Required(request) == Or(request.context.requiredScreenings, 20)

\* parseFloat((Math.min(1, completed / required) * 100).toFixed(1)) in tenths
\* of a percent; 0 / 0 is NaN, which Math.min and toFixed hand on, and a
\* positive count over 0 is Infinity, which Math.min cuts to 1
CompletionRate(completed, required) ==
    IF required = 0 /\ completed = 0 THEN [ nan |-> TRUE, tenths |-> 0 ]
    ELSE IF required = 0 \/ completed >= required THEN [ nan |-> FALSE, tenths |-> 1000 ]
    ELSE [ nan |-> FALSE,
           tenths |-> (2000 * completed + required) \div (2 * required) ]

computeCompliance(request, issues) ==
    LET needsScreening == Len(issues) = 0
    IN  [ needsScreening |-> needsScreening,
          completionRate |-> CompletionRate(Completed(request), Required(request)),
          completed |-> Completed(request),
          pending |-> Max(0, Required(request) - Completed(request)),
          overdue |-> IF \E i \in 1..Len(issues) : issues[i].urgency = "high"
                      THEN 3 ELSE 1,
          dueInDays |-> IF needsScreening THEN 7 ELSE 30,
          alerts |-> Alerts(request, issues) ]

\* -------------------------------------------------- the inference call
\* what callOpenAI hands back: a list, null, or an exception in flight
NullResult == [ threw |-> FALSE, isNull |-> TRUE, issues |-> <<>> ]
Thrown == [ threw |-> TRUE, isNull |-> TRUE, issues |-> <<>> ]
ListResult(list) == [ threw |-> FALSE, isNull |-> FALSE, issues |-> list ]

\* the reshaping of one evidence entry of a model item
ReshapeEvidence(ev) ==
    [ quote |-> ev.quote,
      speaker |-> IF ev.speaker = Missing \/ ev.speaker = "" THEN "member" ELSE ev.speaker,
      timestamp |-> ev.timestamp,
      language |-> normalizeLanguage(ev.language) ]

\* the reshaping of one model item into an IssueMatch; the confidences of the
\* items are numbers with two decimals, which toFixed(2) leaves as they are
ReshapeItem(item) ==
    [ code |-> item.code,
      label |-> item.label,
      domain |-> Or(item.domain, "sdoh"),
      severity |-> Or(item.severity, "moderate"),
      urgency |-> Or(item.urgency, "medium"),
      status |-> Or(item.status, "current"),
      confidence |-> Or(item.confidence, 70),
      evidence |-> IF item.evidenceIsArray
                   THEN [ i \in 1..Len(item.evidence) |-> ReshapeEvidence(item.evidence[i]) ]
                   ELSE <<>>,
      rationale |-> [ phrases |-> Or(item.rationale, "AI generated rationale."),
                      language |-> "en" ],
      estimatedRevenue |-> Or(item.estimatedRevenue, 100) ]

\* reading a property of an item or of an evidence entry that is null throws
Reshapable(item) ==
    /\ item.isObject
    /\ item.evidenceIsArray => \A i \in 1..Len(item.evidence) : item.evidence[i].isObject

\* the statements of callOpenAI after the awaited call has resolved
ParseResponse(content) ==
    CASE content.kind = "unparsable" -> Thrown
      [] content.kind = "jsonNull" -> Thrown
      [] content.kind = "empty" -> NullResult
      [] OTHER ->
           IF ~content.issuesIsArray THEN NullResult
           ELSE IF \A i \in 1..Len(content.issues) : Reshapable(content.issues[i])
                THEN ListResult([ i \in 1..Len(content.issues) |->
                                    ReshapeItem(content.issues[i]) ])
                ELSE Thrown

\* a bug that lets the exception out of callOpenAI
TryCatch_Rethrow(result) == result

\* the try/catch of callOpenAI: an exception is logged and null is returned
TryCatch(result) == IF result.threw THEN NullResult ELSE result

\* ----------------------------------------------------------------- inputs
Line(speaker, text, language, timestamp) ==
    [ speaker |-> speaker, text |-> text, hasText |-> TRUE, language |-> language,
      timestamp |-> timestamp ]

MsgShutOff ==
    Line("member",
         << "My", "electricity", "got", "shut", "off", "on", "Tuesday", "and", "they",
            "said", "it", "might", "take", "a", "week" >>, "en", Missing)
MsgNevera ==
    Line("clinician", << "Mi", "nevera", "está", "vacía", "casi", "siempre" >>, Missing, Missing)
MsgSinComida ==
    Line("member", << "Estamos", "sin", "comida", "y", "sin", "luz" >>, "Spa", "00:12")
MsgMissedMeals ==
    Line("member", << "We", "missed", "meals", "again", "maybe", "it", "is", "urgent" >>,
         "EN", "00:20")
MsgResolved ==
    Line("member",
         << "The", "electricity", "shut", "off", "we", "had", "previously", "was",
            "resolved", "last", "week" >>,
         Missing, "00:31")
MsgUsedTo ==
    Line("member",
         << "We", "used", "to", "go", "to", "the", "food", "bank", "when", "we", "were",
            "without", "power" >>,
         "en", Missing)
MsgCarTonight ==
    Line("member",
         << " ", "I", "am", "sleeping", "in", "my", "car", "tonight", "it", "is", "an",
            "emergency", " " >>, "pt-BR", "00:40")
\* a line without the text field
MsgNoText == [ Line("member", <<>>, Missing, "00:50") EXCEPT !.hasText = FALSE ]
Messages ==
    { MsgShutOff, MsgNevera, MsgSinComida, MsgMissedMeals, MsgResolved, MsgUsedTo,
      MsgCarTonight, MsgNoText }

CodesOf(issues) == { issues[i].code : i \in 1..Len(issues) }

\* the second line of a caller that tags only the first line
MsgSinComidaPlain == [ MsgSinComida EXCEPT !.language = Missing ]

\* matchPatterns on every line of the model, evaluated once
Matches ==
    [ message \in Messages \cup { MsgSinComidaPlain } |->
        matchPatterns(BASE_PATTERNS, message) ]

SeqsUpTo(S, n) == UNION { [1..k -> S] : k \in 0..n }

Transcripts == SeqsUpTo(Messages, MaxLines)

MemberIds == { Missing, "member-7" }

Context(required, completed) ==
    [ requiredScreenings |-> required, completedScreenings |-> completed ]

\* no context, or a context without the two counts
NoContext == Context(<<>>, <<>>)

Contexts ==
    { NoContext, Context(<< 20 >>, << 20 >>), Context(<< 0 >>, << 0 >>),
      Context(<< 0 >>, << 5 >>), Context(<< 3 >>, << 1 >>), Context(<< 20 >>, << 25 >>),
      Context(<<>>, << 7 >>) }

\* every transcript for an anonymous caller without context, and every
\* member id and context with the short transcripts
Requests ==
    [ memberId : { Missing }, transcript : Transcripts, context : { NoContext } ]
      \cup [ memberId : MemberIds, transcript : SeqsUpTo(Messages, ShortLines),
             context : Contexts ]

\* items of the issues array of a model answer
Item(code, label, severity, status, confidence, evidenceIsArray, evidence) ==
    [ isObject |-> TRUE, code |-> code, label |-> label, domain |-> <<>>,
      severity |-> severity, urgency |-> severity, status |-> status,
      confidence |-> confidence, evidenceIsArray |-> evidenceIsArray,
      evidence |-> evidence, rationale |-> <<>>, estimatedRevenue |-> <<>> ]

Quote(text) ==
    [ isObject |-> TRUE, quote |-> text, speaker |-> Missing, timestamp |-> Missing,
      language |-> "Spa" ]

NullEntry ==
    [ isObject |-> FALSE, quote |-> <<>>, speaker |-> Missing, timestamp |-> Missing,
      language |-> Missing ]

ItemFood ==
    Item("Z59.41", "Food insecurity", << "high" >>, << "current" >>, << 91 >>, TRUE,
         << Quote(<< "sin", "comida" >>) >>)
ItemFoodAgain ==
    Item("Z59.41", "Food insecurity", <<>>, <<>>, <<>>, FALSE, <<>>)
ItemIsolation ==
    Item("Z60.2", "Social isolation", << "low" >>, << "historical" >>, << 64 >>, TRUE, <<>>)
ItemBrokenEvidence ==
    Item("Z59.1", "Inadequate housing utilities", << "high" >>, <<>>, << 80 >>, TRUE,
         << NullEntry >>)
ItemTransport ==
    Item("Z59.82", "Transportation insecurity", <<>>, <<>>, << 70 >>, FALSE, <<>>)
ItemNull ==
    [ ItemFoodAgain EXCEPT !.isObject = FALSE ]

Content(kind, issuesIsArray, issues) ==
    [ kind |-> kind, issuesIsArray |-> issuesIsArray, issues |-> issues ]

NoContent == Content("none", FALSE, <<>>)

\* what the awaited call can resolve to
Contents ==
    { Content("unparsable", FALSE, <<>>),
      Content("object", FALSE, <<>>),
      Content("object", TRUE, <<>>),
      Content("object", TRUE, << ItemFood >>),
      Content("object", TRUE, << ItemFood, ItemFoodAgain >>),
      Content("object", TRUE, << ItemIsolation, ItemFood >>),
      Content("object", TRUE, << ItemTransport, ItemIsolation, ItemFoodAgain >>),
      Content("object", TRUE, << ItemFood, ItemNull >>),
      Content("object", TRUE, << ItemBrokenEvidence >>) }

\* ------------------------------------------------------ detectConversation
RECURSIVE Fold(_, _)
\* the loop over the transcript of the rule-based path
Fold(issues, transcript) ==
    IF transcript = <<>> THEN issues
    ELSE Fold(mergeIssues(issues, Matches[Head(transcript)]), Tail(transcript))

RuleBased(transcript) == Fold(<<>>, transcript)

\* a bug that moves a finding in front of the findings of equal confidence
RECURSIVE InsertSorted_Unstable(_, _)
InsertSorted_Unstable(sorted, issue) ==
    IF sorted = <<>> THEN << issue >>
    ELSE IF sorted[Len(sorted)].confidence > issue.confidence
         THEN Append(sorted, issue)
         ELSE Append(InsertSorted_Unstable(SubSeq(sorted, 1, Len(sorted) - 1), issue),
                     sorted[Len(sorted)])

\* Array.prototype.sort with (a, b) => b.confidence - a.confidence: stable
RECURSIVE InsertSorted(_, _)
InsertSorted(sorted, issue) ==
    IF sorted = <<>> THEN << issue >>
    ELSE IF sorted[Len(sorted)].confidence >= issue.confidence
         THEN Append(sorted, issue)
         ELSE Append(InsertSorted(SubSeq(sorted, 1, Len(sorted) - 1), issue),
                     sorted[Len(sorted)])

RECURSIVE SortFrom(_, _)
SortFrom(sorted, rest) ==
    IF rest = <<>> THEN sorted
    ELSE SortFrom(InsertSorted(sorted, Head(rest)), Tail(rest))

SortByConfidence(issues) == SortFrom(<<>>, issues)

\* a bug that takes every line without a tag for English
LineLanguage_NoInference(message) ==
    LET n == normalizeLanguage(message.language)
    IN  IF n # Missing THEN n ELSE "en"

\* the language of one line as detectConversation sees it
LineLanguage(message) ==
    LET n == normalizeLanguage(message.language)
    IN  IF n # Missing THEN n
        ELSE IF HasSpanishMark(message.text) THEN "es" ELSE "en"

RECURSIVE Distinct(_, _)
\* Array.from(new Set(...)): the distinct values in order of first occurrence
Distinct(seen, rest) ==
    IF rest = <<>> THEN seen
    ELSE IF \E i \in 1..Len(seen) : seen[i] = Head(rest)
         THEN Distinct(seen, Tail(rest))
         ELSE Distinct(Append(seen, Head(rest)), Tail(rest))

Languages(transcript) ==
    Distinct(<<>>, [ i \in 1..Len(transcript) |-> LineLanguage(transcript[i]) ])

RECURSIVE WordCount(_)
WordCount(transcript) ==
    IF transcript = <<>> THEN 0
    ELSE Len(Head(transcript).text) + WordCount(Tail(transcript))

\* a bug that folds the transcript into the answer of the model
SelectIssues_Mixed(ai, transcript) ==
    IF ~ai.isNull /\ Len(ai.issues) > 0
    THEN Fold(ai.issues, transcript)
    ELSE RuleBased(transcript)

\* the choice between the answer of the model and the rule-based fold
SelectIssues(ai, transcript) ==
    IF ~ai.isNull /\ Len(ai.issues) > 0
    THEN ai.issues
    ELSE RuleBased(transcript)

\* detectConversation throws after callOpenAI has returned: matchPatterns in
\* the rule-based loop, or the count of promptTokens when aiIssues is not null
DetectThrows(request, ai) ==
    LET transcript == request.transcript
        useModel == ~ai.isNull /\ Len(ai.issues) > 0
    IN  \/ ~useModel /\ \E i \in 1..Len(transcript) : TextThrows(transcript[i])
        \/ ~ai.isNull /\ \E i \in 1..Len(transcript) : TextThrows(transcript[i])

\* detectConversation from the return of callOpenAI to its own return
Respond(request, ai) ==
    LET transcript == request.transcript
        languages == Languages(transcript)
        useModel == ~ai.isNull /\ Len(ai.issues) > 0
        issues == SortByConfidence(SelectIssues(ai, transcript))
    IN  [ engine |-> IF ~ai.isNull THEN "gpt-orchestrator" ELSE "rule-based",
          issues |-> issues,
          documentation |->
              buildDocumentation(request, issues,
                                 IF Len(languages) > 0 THEN languages ELSE << "en" >>),
          compliance |-> computeCompliance(request, issues),
          debug |-> [ promptTokens |-> IF ~ai.isNull THEN << WordCount(transcript) >>
                                       ELSE <<>>,
                      fallbackUsed |-> ~useModel ] ]

\* ------------------------------------------------------------------ state
VARIABLES
    apiKey,     \* process.env.OPENAI_API_KEY is set
    pc,         \* position of the invocation: idle, awaiting, settled, done, raised
    request,    \* the DetectionRequest of the invocation
    calls,      \* client.responses.create calls issued by the invocation
    outcome,    \* how callOpenAI went: none, noKey, importFailed, sent, rejected, resolved
    pending,    \* what the awaited call resolved to
    aiIssues,   \* the value callOpenAI returned
    response,   \* the DetectionResponse returned to the caller
    classified, \* a call of adjustConfidence on its own: base, text and result
    heap,       \* the transcripts of the callers, by request object
    catalog,    \* the module-level pattern catalog
    inv,        \* the invocations that run side by side, by invocation
    merged,     \* a call of mergeIssues on its own: arguments and result
    transcriptBuffers, \* the live transcript buffers, by call identifier
    streamToCall,      \* the call identifier registered for a stream identifier
    stored,     \* the transcript column of the calls table, by call identifier
    clock,      \* the clock behind new Date().toISOString()
    handler,    \* the handler of POST /status: position and locals
    result      \* the last delivery to a buffer and what it returned

\* the state of the voice routes
voice == << transcriptBuffers, streamToCall, stored, clock, handler, result >>

\* the state outside the detection engine
aside == << merged, voice >>

vars ==
    << apiKey, pc, request, calls, outcome, pending, aiIssues, response, classified,
       heap, catalog, inv, merged, transcriptBuffers, streamToCall, stored, clock,
       handler, result >>

\* the state of the invocations that run side by side
shared == << heap, catalog, inv >>

\* the request objects callers hand in, and the invocations in flight
Objects == { "requestA", "requestB" }
Invocations == { 1, 2 }

IdleInvocation ==
    [ pc |-> "idle", object |-> "none", given |-> <<>>, languages |-> <<>>,
      rejected |-> FALSE, pending |-> NoContent, aiIssues |-> NullResult,
      issues |-> <<>> ]

\* the call identifiers that key a buffer, and the stream identifiers
CallKeys == { "CA1", "CA2" }
StreamSids == { "MZ1", "MZ2" }

\* the calls that have a row in the calls table
Rows == { "CA1" }

NoBuffer == [ exists |-> FALSE, messages |-> <<>> ]

IdleHandler == [ pc |-> "idle", callSid |-> Missing, buffered |-> <<>>, transcript |-> <<>> ]

\* what a delivery to a buffer returned: callSid and appended as
\* ingestStreamPayload returns them; via is the entry it came through, grew
\* is the growth of the buffer, and again tells that the buffer already
\* held what was delivered
NoResult ==
    [ via |-> "none", callSid |-> Missing, appended |-> 0, grew |-> 0, again |-> FALSE ]

\* the voice routes before any request
VoiceInit ==
    /\ transcriptBuffers = [ c \in CallKeys |-> NoBuffer ]
    /\ streamToCall = [ sid \in StreamSids |-> Missing ]
    /\ stored = [ c \in Rows |-> <<>> ]
    /\ clock = 0
    /\ handler = IdleHandler
    /\ result = NoResult

NoRequest == [ memberId |-> Missing, transcript |-> <<>>, context |-> NoContext ]

NoResponse == [ Respond(NoRequest, NullResult) EXCEPT !.engine = "none" ]

Init ==
    /\ apiKey \in BOOLEAN
    /\ pc = "idle"
    /\ request = NoRequest
    /\ calls = 0
    /\ outcome = "none"
    /\ pending = NoContent
    /\ aiIssues = NullResult
    /\ response = NoResponse
    /\ classified = <<>>
    /\ heap = [ o \in Objects |-> <<>> ]
    /\ catalog = BASE_PATTERNS
    /\ inv = [ i \in Invocations |-> IdleInvocation ]
    /\ merged = <<>>
    /\ VoiceInit

\* detectConversation from the return of callOpenAI on: returns, or lets an
\* exception through, of callOpenAI or of its own
Complete(req, ai) ==
    /\ aiIssues' = ai
    /\ IF ai.threw \/ DetectThrows(req, ai)
       THEN pc' = "raised" /\ response' = NoResponse
       ELSE pc' = "done" /\ response' = Respond(req, ai)

\* an invocation without credential: callOpenAI returns null at once
InvokeNoKey ==
    /\ pc = "idle"
    /\ ~apiKey
    /\ \E req \in Requests :
          /\ request' = req
          /\ Complete(req, NullResult)
    /\ calls' = 0
    /\ outcome' = "noKey"
    /\ pending' = NoContent
    /\ UNCHANGED apiKey
    /\ UNCHANGED << classified, shared, aside >>

\* an invocation whose import of the client, or its construction, throws
InvokeImportFails ==
    /\ pc = "idle"
    /\ apiKey
    /\ \E req \in Requests :
          /\ request' = req
          /\ Complete(req, TryCatch(Thrown))
    /\ calls' = 0
    /\ outcome' = "importFailed"
    /\ pending' = NoContent
    /\ UNCHANGED apiKey
    /\ UNCHANGED << classified, shared, aside >>

\* an invocation that reaches client.responses.create and suspends on it
InvokeSend ==
    /\ pc = "idle"
    /\ apiKey
    /\ \E req \in Requests : request' = req
    /\ calls' = 1
    /\ outcome' = "sent"
    /\ pending' = NoContent
    /\ pc' = "awaiting"
    /\ aiIssues' = NullResult
    /\ response' = NoResponse
    /\ UNCHANGED apiKey
    /\ UNCHANGED << classified, shared, aside >>

\* the inference service answers
ServiceResolves ==
    /\ pc = "awaiting"
    /\ pc' = "settled"
    /\ outcome' = "resolved"
    /\ \E content \in Contents : pending' = content
    /\ UNCHANGED << apiKey, request, calls, aiIssues, response >>
    /\ UNCHANGED << classified, shared, aside >>

\* a bug that issues the call again when it fails
ServiceRejects_Retry ==
    /\ pc = "awaiting"
    /\ calls < 3
    /\ calls' = calls + 1
    /\ UNCHANGED << apiKey, pc, request, outcome, pending, aiIssues, response >>
    /\ UNCHANGED << classified, shared, aside >>

\* the inference call fails (network error, error status)
ServiceRejects ==
    /\ pc = "awaiting"
    /\ pc' = "settled"
    /\ outcome' = "rejected"
    /\ pending' = NoContent
    /\ UNCHANGED << apiKey, request, calls, aiIssues, response >>
    /\ UNCHANGED << classified, shared, aside >>

\* the continuation of callOpenAI and detectConversation after the await
Resume ==
    /\ pc = "settled"
    /\ Complete(request,
                TryCatch(IF outcome = "rejected" THEN Thrown
                         ELSE ParseResponse(pending)))
    /\ UNCHANGED << apiKey, request, calls, outcome, pending >>
    /\ UNCHANGED << classified, shared, aside >>

\* the caller has taken the response; the invocation and its locals are gone
Return ==
    /\ pc = "done"
    /\ pc' = "idle"
    /\ request' = NoRequest
    /\ calls' = 0
    /\ outcome' = "none"
    /\ pending' = NoContent
    /\ aiIssues' = NullResult
    /\ response' = NoResponse
    /\ UNCHANGED apiKey
    /\ UNCHANGED << classified, shared, aside >>

Next ==
    \/ InvokeNoKey
    \/ InvokeImportFails
    \/ InvokeSend
    \/ ServiceResolves
    \/ ServiceRejects
    \/ Resume
    \/ Return

Spec == Init /\ [][Next]_vars

\* the event loop runs every continuation that is ready; nothing makes the
\* inference service answer
FairSpec == Spec /\ WF_vars(Resume)

TypeOK ==
    /\ apiKey \in BOOLEAN
    /\ pc \in {"idle", "awaiting", "settled", "done", "raised"}
    /\ calls \in 0..1
    /\ Len(request.transcript) <= MaxLines

\* ------------------------------------------ adjustConfidence on its own
MaxBase == 120

\* base confidences in hundredths, beyond both ends of the clamp
Bases == 0..MaxBase

Texts == { message.text : message \in { m \in Messages : m.hasText } }

\* adjustConfidence is called with a base and a text
Classify ==
    /\ pc = "idle"
    /\ classified = <<>>
    /\ \E base \in Bases, text \in Texts :
          classified' = << [ base |-> base, text |-> text,
                             confidence |-> adjustConfidence(base, text) ] >>
    /\ UNCHANGED << apiKey, pc, request, calls, outcome, pending, aiIssues, response,
                    shared, aside >>

\* the caller has taken the confidence
Forget ==
    /\ classified # <<>>
    /\ classified' = <<>>
    /\ UNCHANGED << apiKey, pc, request, calls, outcome, pending, aiIssues, response,
                    shared, aside >>

\* one invocation, or one call of adjustConfidence, at a time
Detect == classified = <<>> /\ Next

ClassifyNext ==
    \/ Detect
    \/ Classify
    \/ Forget

ClassifySpec == Init /\ [][ClassifyNext]_vars

\* ------------------------------------------- invocations side by side
\* the transcripts the callers hold
SharedTranscripts ==
    { << MsgShutOff >>, << MsgSinComida, MsgSinComidaPlain >>,
      << MsgSinComidaPlain, MsgMissedMeals >> }

\* what the awaited calls resolve to
SharedContents ==
    { Content("unparsable", FALSE, <<>>),
      Content("object", TRUE, << ItemIsolation, ItemFood >>) }

SharedInit ==
    /\ apiKey \in BOOLEAN
    /\ pc = "idle"
    /\ request = NoRequest
    /\ calls = 0
    /\ outcome = "none"
    /\ pending = NoContent
    /\ aiIssues = NullResult
    /\ response = NoResponse
    /\ classified = <<>>
    /\ heap \in [ Objects -> SharedTranscripts ]
    /\ catalog = BASE_PATTERNS
    /\ inv = [ i \in Invocations |-> IdleInvocation ]
    /\ merged = <<>>
    /\ VoiceInit

single == << apiKey, pc, request, calls, outcome, pending, aiIssues, response, classified >>

RECURSIVE FoldShared(_, _, _)
\* the loop over the transcript, on the catalog as it stands: the findings
\* and the catalog it leaves
FoldShared(patterns, issues, transcript) ==
    IF transcript = <<>> THEN [ issues |-> issues, catalog |-> patterns ]
    ELSE FoldShared(CatalogAfter(patterns, Head(transcript)),
                    mergeIssues(issues, matchPatterns(patterns, Head(transcript))),
                    Tail(transcript))

\* detectConversation up to its await: it reads the transcript for the
\* language summary; callOpenAI returns null at once without credential and
\* suspends on the inference call with one
Start(i) ==
    /\ inv[i].pc = "idle"
    /\ \E o \in Objects :
          inv' = [ inv EXCEPT ![i] =
                     [ IdleInvocation EXCEPT
                         !.pc = IF apiKey THEN "awaiting" ELSE "settled",
                         !.object = o,
                         !.given = heap[o],
                         !.languages = Languages(heap[o]) ] ]
    /\ UNCHANGED << single, heap, catalog, aside >>

\* the inference call of an invocation settles
Settle(i) ==
    /\ inv[i].pc = "awaiting"
    /\ \/ \E content \in SharedContents :
             inv' = [ inv EXCEPT ![i].pc = "settled", ![i].pending = content ]
       \/ inv' = [ inv EXCEPT ![i].pc = "settled", ![i].rejected = TRUE ]
    /\ UNCHANGED << single, heap, catalog, aside >>

\* the continuation of an invocation after its await, run to completion
Finish(i) ==
    /\ inv[i].pc = "settled"
    /\ LET ai == IF ~apiKey THEN NullResult
                 ELSE TryCatch(IF inv[i].rejected THEN Thrown
                               ELSE ParseResponse(inv[i].pending))
           useModel == ~ai.isNull /\ Len(ai.issues) > 0
           folded == FoldShared(catalog, <<>>, heap[inv[i].object])
       IN  /\ inv' = [ inv EXCEPT
                         ![i].pc = "done",
                         ![i].aiIssues = ai,
                         ![i].issues = SortByConfidence(IF useModel THEN ai.issues
                                                        ELSE folded.issues) ]
           /\ catalog' = IF useModel THEN catalog ELSE folded.catalog
    /\ UNCHANGED << single, heap, aside >>

\* the caller has taken the result of an invocation
Collect(i) ==
    /\ inv[i].pc = "done"
    /\ inv' = [ inv EXCEPT ![i] = IdleInvocation ]
    /\ UNCHANGED << single, heap, catalog, aside >>

SharedNext ==
    \/ \E i \in Invocations : Start(i)
    \/ \E i \in Invocations : Settle(i)
    \/ \E i \in Invocations : Finish(i)
    \/ \E i \in Invocations : Collect(i)

SharedSpec == SharedInit /\ [][SharedNext]_vars

\* ---------------------------------------------- mergeIssues on its own
MaxEvidence == 6

\* severity and urgency of a finding
Grades ==
    { << "low", "low" >>, << "moderate", "medium" >>, << "high", "high" >>,
      << "high", "low" >>, << "moderate", "high" >> }

Statuses == { "current", "resolved", "historical" }

\* confidences of the classifier, in hundredths
Confidences == { 40, 80, 98 }

EvidenceCounts == { 1, MaxEvidence }

\* the finding matchPatterns gives the food line, with other values in the
\* fields that mergeIssues combines
Finding(grade, status, confidence, count) ==
    LET matches == Matches[MsgSinComida]
        match == matches[CHOOSE k \in 1..Len(matches) : matches[k].code = "Z59.41"]
    IN  [ match EXCEPT
            !.severity = grade[1],
            !.urgency = grade[2],
            !.status = status,
            !.confidence = confidence,
            !.evidence = [ i \in 1..count |-> match.evidence[1] ] ]

Findings ==
    { Finding(grade, status, confidence, count) :
        grade \in Grades, status \in Statuses, confidence \in Confidences,
        count \in EvidenceCounts }

\* accumulators: the folds of the short transcripts, and one finding
Accumulators ==
    { RuleBased(transcript) :
        transcript \in SeqsUpTo({ m \in Messages : m.hasText }, 2) }
      \cup { << finding >> : finding \in Findings }
      \cup { << Matches[MsgShutOff][1], finding >> :
               finding \in { Finding(<< "moderate", "medium" >>, status, 99, 1) :
                               status \in Statuses } }

\* incoming sets: the matches of the lines, and one finding
Incomings ==
    { Matches[message] : message \in Messages } \cup { << finding >> : finding \in Findings }

\* mergeIssues is called with an accumulator and the matches of a line
Merge ==
    /\ merged = <<>>
    /\ \E existing \in Accumulators, incoming \in Incomings :
          merged' = << [ existing |-> existing, incoming |-> incoming,
                         result |-> mergeIssues(existing, incoming) ] >>
    /\ UNCHANGED << single, shared, voice >>

\* the caller has taken the merged list
TakeMerged ==
    /\ merged # <<>>
    /\ merged' = <<>>
    /\ UNCHANGED << single, shared, voice >>

MergeNext ==
    \/ Merge
    \/ TakeMerged

MergeSpec == Init /\ [][MergeNext]_vars

\* ------------------------------------------------------- voice routes
MaxClock == 1
\* the messages the model follows at a time, over the buffers and the row
MaxBuffer == 2

\* String.prototype.toLowerCase on the speaker labels of the model
LowerLabel(value) ==
    CASE value = "Bot" -> "bot"
      [] value = "Agent" -> "agent"
      [] value = "Care Manager" -> "care manager"
      [] OTHER -> value

\* key.replace(/[^a-z0-9_-]+/g, '-') on the lower-case labels of the model
Sanitized(key) == IF key = "care manager" THEN "care-manager" ELSE key

normalizeSpeaker(value, fallback) ==
    IF value = Missing \/ value = "" THEN fallback
    ELSE LET key == LowerLabel(value)
         IN  IF key \in { "customer", "client", "member", "patient", "user", "caller",
                          "callee", "participant" } THEN "member"
             ELSE IF key \in { "agent", "navigator", "coach", "caremanager", "care_manager",
                               "staff", "assistant", "operator" } THEN "navigator"
             ELSE IF key \in { "system", "twilio" } THEN "system"
             ELSE IF key \in { "bot", "ai", "automation" } THEN "assistant"
             ELSE Sanitized(key)

\* String.prototype.trim on the texts and call identifiers of the model
TrimString(value) ==
    CASE value = " " -> ""
      [] value = " CA1 " -> "CA1"
      [] OTHER -> value

\* a JavaScript value is truthy: neither undefined nor the empty string
Truthy(value) == value # Missing /\ value # ""

\* new Date().toISOString() at the instants of the clock
Instants == << "now0", "now1", "now2", "now3", "now4" >>
Now(time) == Instants[time + 1]

TranscriptMessage(speaker, text, timestamp, startTime) ==
    [ speaker |-> speaker, text |-> text, timestamp |-> timestamp, startTime |-> startTime ]

\* the deduplication key: speaker, text and timestamp ?? startTime ?? ''
KeyOf(message) ==
    << message.speaker, message.text,
       IF message.timestamp # Missing THEN message.timestamp
       ELSE IF message.startTime # Missing THEN message.startTime
       ELSE "" >>

KeysOf(messages) == { KeyOf(messages[i]) : i \in 1..Len(messages) }

\* the message mergeTranscripts registers for an incoming message
Normalized(message, now) ==
    [ message EXCEPT
        !.speaker = normalizeSpeaker(message.speaker, "participant"),
        !.timestamp = IF Truthy(message.timestamp) THEN message.timestamp
                      ELSE IF Truthy(message.startTime) THEN message.startTime
                      ELSE now ]

RECURSIVE Register(_, _, _)
\* the loop of mergeTranscripts over the incoming messages
Register(ordered, incoming, now) ==
    IF incoming = <<>> THEN ordered
    ELSE LET message == Head(incoming)
             normalized == Normalized(message, now)
         IN  IF TrimString(message.text) = "" \/ KeyOf(normalized) \in KeysOf(ordered)
             THEN Register(ordered, Tail(incoming), now)
             ELSE Register(Append(ordered, normalized), Tail(incoming), now)

mergeTranscripts(existing, incoming, now) ==
    IF incoming = <<>> THEN existing ELSE Register(existing, incoming, now)

\* a segment of a payload: any field may be absent
Segment(speaker, text, timestamp, startTime) ==
    [ speaker |-> speaker, text |-> text, timestamp |-> timestamp, startTime |-> startTime ]

RECURSIVE parseSegments(_)
\* the messages of the segments of a payload; blank texts are dropped
parseSegments(segments) ==
    IF segments = <<>> THEN <<>>
    ELSE LET segment == Head(segments)
             text == TrimString(segment.text)
         IN  (IF text = "" THEN <<>>
              ELSE << TranscriptMessage(
                        normalizeSpeaker(segment.speaker, "participant"), text,
                        IF segment.timestamp # Missing THEN segment.timestamp
                        ELSE segment.startTime,
                        segment.startTime) >>)
             \o parseSegments(Tail(segments))

RECURSIVE Deduped(_, _)
\* the first message of every key, in order
Deduped(kept, messages) ==
    IF messages = <<>> THEN kept
    ELSE IF KeyOf(Head(messages)) \in KeysOf(kept)
         THEN Deduped(kept, Tail(messages))
         ELSE Deduped(Append(kept, Head(messages)), Tail(messages))

coerceMessagesFromPayload(payload) == Deduped(<<>>, parseSegments(payload.segments))

\* payload.text, trimmed, or undefined
extractText(payload) ==
    IF payload.text # Missing /\ TrimString(payload.text) # ""
    THEN TrimString(payload.text) ELSE Missing

inferSpeaker(payload) == normalizeSpeaker(payload.speaker, "participant")

\* a payload to POST /stream
Payload(event, callSid, streamSid, segments, text, speaker) ==
    [ event |-> event, callSid |-> callSid, streamSid |-> streamSid,
      segments |-> segments, text |-> text, speaker |-> speaker ]

\* the requests to POST /stream
Payloads ==
    { Payload("start", "CA1", "MZ1", <<>>, Missing, Missing),
      Payload("media", Missing, "MZ1", <<>>, "no food", "caller"),
      Payload("media", "CA1", Missing,
              << Segment("Bot", "hello", "09:00", Missing),
                 Segment("Agent", " ", "09:03", Missing) >>,
              Missing, Missing),
      Payload("media", "CA2", "MZ2",
              << Segment(Missing, "no food", Missing, "09:01") >>, Missing, Missing),
      Payload("media", " CA1 ", "MZ2", <<>>, " ", Missing),
      Payload("media", Missing, Missing, <<>>, "hello", Missing),
      Payload("stop", "CA1", "MZ1", <<>>, Missing, Missing) }

\* the batches handed to bufferTranscript by a caller
Batches ==
    { << TranscriptMessage("Bot", "hello", "09:00", Missing) >>,
      << TranscriptMessage("caller", "no food", Missing, Missing) >> }

\* extractCallSid: the call identifier of a payload
CallSidOf(payload) ==
    IF payload.callSid # Missing /\ TrimString(payload.callSid) # ""
    THEN TrimString(payload.callSid)
    ELSE IF payload.streamSid # Missing THEN streamToCall[payload.streamSid]
    ELSE Missing

\* extractCallSid: the stream map after it; the identifier is stored as it came
StreamsAfterExtract(payload) ==
    IF payload.callSid # Missing /\ TrimString(payload.callSid) # ""
         /\ payload.streamSid # Missing
    THEN [ streamToCall EXCEPT ![payload.streamSid] = payload.callSid ]
    ELSE streamToCall

\* ingestStreamPayload: the stream map after the stop event
StreamsAfterStop(streams, payload) ==
    IF payload.event = "stop" /\ payload.streamSid # Missing
    THEN [ streams EXCEPT ![payload.streamSid] = Missing ]
    ELSE streams

\* what ingestStreamPayload hands to bufferTranscript
BufferedOf(payload) ==
    LET messages == coerceMessagesFromPayload(payload)
    IN  IF payload.event = "start" THEN <<>>
        ELSE IF messages # <<>> THEN messages
        ELSE IF extractText(payload) # Missing
        THEN << TranscriptMessage(inferSpeaker(payload), extractText(payload),
                                  Now(clock), Missing) >>
        ELSE <<>>

\* the count ingestStreamPayload returns for the messages it handed on
Appended(messages, before, after) == Len(messages)

\* bufferTranscript on the buffer of a call
BufferAfter(buffer, messages) ==
    IF messages = <<>> THEN buffer
    ELSE [ exists |-> TRUE,
           messages |-> mergeTranscripts(buffer.messages, messages, Now(clock)) ]

\* the messages a payload carries, before ingestStreamPayload stamps them
CarriedBy(payload) ==
    LET messages == coerceMessagesFromPayload(payload)
    IN  IF payload.event = "start" THEN <<>>
        ELSE IF messages # <<>> THEN messages
        ELSE IF extractText(payload) # Missing
        THEN << TranscriptMessage(inferSpeaker(payload), extractText(payload),
                                  Missing, Missing) >>
        ELSE <<>>

\* the buffer already holds the messages: each under its speaker and text,
\* and under its timestamp or startTime when it carries one
AlreadyIn(buffered, messages) ==
    /\ messages # <<>>
    /\ \A i \in 1..Len(messages) :
          \E k \in 1..Len(buffered) :
             /\ buffered[k].speaker = normalizeSpeaker(messages[i].speaker, "participant")
             /\ buffered[k].text = messages[i].text
             /\ KeyOf(messages[i])[3] \in { "", buffered[k].timestamp }

\* the messages in the buffers and in the transcript of the row, stored or
\* about to be stored
InPlay ==
    Len(transcriptBuffers["CA1"].messages) + Len(transcriptBuffers["CA2"].messages)
        + Max(Len(stored["CA1"]), Len(handler.transcript))

\* the state of the detection engine
engine == << single, shared, merged >>

\* the clock moves on
Tick ==
    /\ clock < MaxClock
    /\ clock' = clock + 1
    /\ UNCHANGED << transcriptBuffers, streamToCall, stored, handler, result, engine >>

\* POST /stream with a payload that resolves to no call
IngestUnresolved ==
    /\ \E payload \in Payloads :
          /\ CallSidOf(payload) = Missing
          /\ result' = [ NoResult EXCEPT !.via = "stream" ]
    /\ UNCHANGED << transcriptBuffers, streamToCall, stored, clock, handler, engine >>

\* POST /stream with a payload that resolves to a call
Ingest ==
    /\ \E payload \in Payloads :
          LET c == CallSidOf(payload)
          IN  /\ c \in CallKeys
              /\ LET before == transcriptBuffers[c]
                     messages == BufferedOf(payload)
                     after == IF payload.event = "start"
                              THEN [ before EXCEPT !.exists = TRUE ]
                              ELSE BufferAfter(before, messages)
                 IN  /\ InPlay + Len(after.messages) - Len(before.messages) <= MaxBuffer
                     /\ transcriptBuffers' = [ transcriptBuffers EXCEPT ![c] = after ]
                     /\ streamToCall' = StreamsAfterStop(StreamsAfterExtract(payload), payload)
                     /\ result' = [ via |-> "stream",
                                    callSid |-> c,
                                    appended |-> Appended(messages, before.messages,
                                                          after.messages),
                                    grew |-> Len(after.messages) - Len(before.messages),
                                    again |-> AlreadyIn(before.messages, CarriedBy(payload)) ]
    /\ UNCHANGED << stored, clock, handler, engine >>

\* a caller hands a batch to bufferTranscript
BufferTranscript ==
    /\ \E c \in Rows, batch \in Batches :
          LET before == transcriptBuffers[c]
              after == BufferAfter(before, batch)
          IN  /\ InPlay + Len(after.messages) - Len(before.messages) <= MaxBuffer
              /\ transcriptBuffers' = [ transcriptBuffers EXCEPT ![c] = after ]
              /\ result' = [ NoResult EXCEPT
                               !.via = "buffer",
                               !.callSid = c,
                               !.grew = Len(after.messages) - Len(before.messages),
                               !.again = AlreadyIn(before.messages, batch) ]
    /\ UNCHANGED << streamToCall, stored, clock, handler, engine >>

\* a bug that forgets the streams of every call
clearStreams_All(streams, callSid) == [ sid \in StreamSids |-> Missing ]

\* clearTranscript: the stream map without the streams of a call
clearStreams(streams, callSid) ==
    [ sid \in StreamSids |-> IF streams[sid] = callSid THEN Missing ELSE streams[sid] ]

\* the call identifiers of the requests to POST /status
StatusSids == CallKeys

\* POST /status arrives and selects the row of the call
StatusReceive ==
    /\ handler.pc \in { "idle", "failed" }
    /\ \E c \in StatusSids :
          handler' = [ IdleHandler EXCEPT !.pc = "selecting", !.callSid = c ]
    /\ UNCHANGED << transcriptBuffers, streamToCall, stored, clock, result, engine >>

\* the select found no row: 404
StatusNotFound ==
    /\ handler.pc = "selecting"
    /\ handler.callSid \notin Rows
    /\ handler' = IdleHandler
    /\ UNCHANGED << transcriptBuffers, streamToCall, stored, clock, result, engine >>

\* the select found the row: the handler drains the buffer with
\* finalizeTranscript and merges it into the transcript of the row
StatusDrain ==
    /\ handler.pc = "selecting"
    /\ handler.callSid \in Rows
    /\ LET c == handler.callSid
           buffered == transcriptBuffers[c].messages
           transcript == mergeTranscripts(stored[c], buffered, Now(clock))
       IN  /\ Len(transcript) <= MaxBuffer
           /\ handler' = [ handler EXCEPT
                             !.pc = IF transcript # <<>> THEN "detecting" ELSE "updating",
                             !.buffered = buffered,
                             !.transcript = transcript ]
           /\ transcriptBuffers' = [ transcriptBuffers EXCEPT ![c] = NoBuffer ]
           /\ streamToCall' = clearStreams(streamToCall, c)
    /\ UNCHANGED << stored, clock, result, engine >>

\* detectConversation and the summary e-mail have settled; their failures
\* are caught and logged
StatusDetected ==
    /\ handler.pc = "detecting"
    /\ handler' = [ handler EXCEPT !.pc = "updating" ]
    /\ UNCHANGED << transcriptBuffers, streamToCall, stored, clock, result, engine >>

\* the update of the row succeeds and the handler answers
StatusUpdate ==
    /\ handler.pc = "updating"
    /\ stored' = IF handler.transcript # <<>>
                 THEN [ stored EXCEPT ![handler.callSid] = handler.transcript ]
                 ELSE stored
    /\ handler' = IdleHandler
    /\ UNCHANGED << transcriptBuffers, streamToCall, clock, result, engine >>

\* the update of the row fails: the handler passes the error on
StatusUpdateFails ==
    /\ handler.pc = "updating"
    /\ handler' = [ handler EXCEPT !.pc = "failed" ]
    /\ UNCHANGED << transcriptBuffers, streamToCall, stored, clock, result, engine >>

VoiceNext ==
    \/ Tick
    \/ IngestUnresolved
    \/ Ingest
    \/ BufferTranscript
    \/ StatusReceive
    \/ StatusNotFound
    \/ StatusDrain
    \/ StatusDetected
    \/ StatusUpdate
    \/ StatusUpdateFails

\* the voice routes do not read the credential of the detection engine
VoiceStart == Init /\ ~apiKey

VoiceSpec == VoiceStart /\ [][VoiceNext]_vars

\* ---------------------------------------------------------------- claims
Returned == pc = "done"

RuleBasedPath == pc = "done" /\ response.debug.fallbackUsed

\* C1: every returned DetectionResult, whichever engine produced it, holds
\* at most one finding per code (as many findings as distinct codes).
C1_OneFindingPerCode ==
    Returned => Len(response.issues) = Cardinality(CodesOf(response.issues))

\* the inference call failed, answered with a malformed response or an empty
\* list, or was not made for lack of a credential
CallFailedOrEmpty ==
    \/ outcome \in {"noKey", "importFailed", "rejected"}
    \/ /\ outcome = "resolved"
       /\ \/ ParseResponse(pending).threw
          \/ ParseResponse(pending).isNull
          \/ ParseResponse(pending).issues = <<>>

\* C2: when the inference call fails, is malformed, returns an empty list or
\* has no credential, the findings are those of the rule-based pipeline and
\* the result is tagged rule-based.
C2_FallbackTaggedRuleBased ==
    Returned /\ CallFailedOrEmpty =>
        /\ response.issues = SortByConfidence(RuleBased(request.transcript))
        /\ response.engine = "rule-based"

\* C3: every finding of the rule-based path has 0.40 <= confidence <= 0.99.
C3_ConfidenceBounds ==
    RuleBasedPath =>
        \A i \in 1..Len(response.issues) :
            /\ 40 <= response.issues[i].confidence
            /\ response.issues[i].confidence <= 99

\* a rule-based finding that several lines support has reached the ceiling
C3_Witness ==
    /\ RuleBasedPath
    /\ \E i \in 1..Len(response.issues) :
          /\ response.issues[i].confidence = 99
          /\ Len(response.issues[i].evidence) >= 2


\* C4: the returned findings are exactly the reshaped answer of the model or
\* exactly the findings of the rule-based fold, never a mix of both.
C4_NeverMixed ==
    Returned =>
        \/ /\ ~aiIssues.isNull
           /\ Range(response.issues) = Range(aiIssues.issues)
           /\ Len(response.issues) = Len(aiIssues.issues)
        \/ /\ Range(response.issues) = Range(RuleBased(request.transcript))
           /\ Len(response.issues) = Len(RuleBased(request.transcript))

\* the answer of the model was used although the transcript has findings of
\* its own, one of them for a code of the answer
C4_Witness ==
    /\ Returned
    /\ ~response.debug.fallbackUsed
    /\ CodesOf(RuleBased(request.transcript)) \cap CodesOf(response.issues) # {}
    /\ Range(response.issues) \cap Range(RuleBased(request.transcript)) = {}

AllLinesHaveText(transcript) == \A i \in 1..Len(transcript) : transcript[i].hasText

\* C5: a failure of the inference call never reaches the caller: what
\* callOpenAI hands back is never an exception, and on a transcript whose
\* lines all have their text the invocation returns a result instead of raising.
C5_NeverRaises ==
    /\ ~aiIssues.threw
    /\ AllLinesHaveText(request.transcript) => pc # "raised"

\* an invocation has returned after an exception inside callOpenAI
C5_Witness ==
    /\ Returned
    /\ request.transcript # <<>>
    /\ \/ outcome \in {"importFailed", "rejected"}
       \/ outcome = "resolved" /\ ParseResponse(pending).threw
    /\ response.engine = "rule-based"

\* C6: every invocation eventually returns, also when the inference call
\* does not answer.
C6_EventuallyReturns == (pc = "awaiting") ~> (pc = "done")

\* C7 as stated: one call exactly when a credential is configured, none
\* otherwise.
C7_OneCallIffCredential ==
    Returned => calls = IF apiKey THEN 1 ELSE 0

\* C7 as amended: an invocation issues at most one inference call and never
\* repeats it; none without a credential or when the client cannot be loaded,
\* exactly one once the client is constructed.
C7_AtMostOneCall ==
    /\ calls <= 1
    /\ pc # "idle" => calls = IF outcome \in {"noKey", "importFailed"} THEN 0 ELSE 1

\* an invocation has returned after its single call failed
C7_Witness == Returned /\ outcome = "rejected" /\ calls = 1

\* C8: a request without transcript lines returns no findings, tagged
\* rule-based, with needsScreening and the no-risk narrative, whether or not
\* a credential is configured.
C8_EmptyTranscript ==
    Returned /\ request.transcript = <<>> =>
        /\ response.issues = <<>>
        /\ response.engine = "rule-based"
        /\ response.compliance.needsScreening
        /\ response.documentation.narrative.kind = "noRisk"

\* the statuses the classifier gave the lines of a transcript that matched a code
RECURSIVE StatusesFor(_, _)
StatusesFor(code, transcript) ==
    IF transcript = <<>> THEN <<>>
    ELSE (IF code \in CodesOf(Matches[Head(transcript)])
          THEN << determineStatus(Head(transcript).text) >> ELSE <<>>)
         \o StatusesFor(code, Tail(transcript))

\* C9: in the rule-based path a code with at least one contributing line
\* classified current ends with status current.
C9_CurrentDominates ==
    RuleBasedPath =>
        \A code \in Codes :
            "current" \in Range(StatusesFor(code, request.transcript)) =>
                \E i \in 1..Len(response.issues) :
                    /\ response.issues[i].code = code
                    /\ response.issues[i].status = "current"

\* a code whose last contributing line is not current, after a current one
C9_Witness ==
    /\ RuleBasedPath
    /\ \E code \in Codes :
          LET st == StatusesFor(code, request.transcript)
          IN  /\ Len(st) >= 2
              /\ st[1] = "current"
              /\ st[Len(st)] # "current"
              /\ \E i \in 1..Len(response.issues) :
                    /\ response.issues[i].code = code
                    /\ response.issues[i].status = "current"

\* the evidence entries of the lines of a transcript that matched a code
RECURSIVE EvidenceFor(_, _)
EvidenceFor(code, transcript) ==
    IF transcript = <<>> THEN <<>>
    ELSE (IF code \in CodesOf(Matches[Head(transcript)])
          THEN << [ quote |-> trim(Head(transcript).text),
                    speaker |-> Head(transcript).speaker,
                    timestamp |-> Head(transcript).timestamp,
                    language |-> normalizeLanguage(Head(transcript).language) ] >>
          ELSE <<>>)
         \o EvidenceFor(code, Tail(transcript))

\* C10: in the rule-based path the evidence of a finding is the evidence of
\* all lines that matched its code, in transcript order, duplicates kept, so
\* its length is the number of matching lines.
C10_EvidenceConcatenated ==
    RuleBasedPath =>
        \A i \in 1..Len(response.issues) :
            /\ response.issues[i].evidence
                  = EvidenceFor(response.issues[i].code, request.transcript)
            /\ Len(response.issues[i].evidence)
                  = Len(StatusesFor(response.issues[i].code, request.transcript))

\* the same line twice: one finding with two equal evidence entries
C10_Witness ==
    /\ RuleBasedPath
    /\ Len(request.transcript) = 2
    /\ request.transcript[1] = request.transcript[2]
    /\ Len(response.issues) = 1
    /\ Len(response.issues[1].evidence) = 2
    /\ response.issues[1].evidence[1] = response.issues[1].evidence[2]

\* the confidences the classifier gave the lines of a transcript that matched a code
RECURSIVE ConfidencesFor(_, _)
ConfidencesFor(code, transcript) ==
    IF transcript = <<>> THEN <<>>
    ELSE LET hits == SelectSeq(Matches[Head(transcript)], LAMBDA m : m.code = code)
         IN  [ k \in 1..Len(hits) |-> hits[k].confidence ]
             \o ConfidencesFor(code, Tail(transcript))

MaxOfSeq(seq) == CHOOSE m \in Range(seq) : \A x \in Range(seq) : x <= m

\* C11: the final confidence of a rule-based finding exceeds the highest
\* classifier confidence among its contributing lines by at most 0.10,
\* however many lines are folded.
C11_BonusCapped ==
    RuleBasedPath =>
        \A i \in 1..Len(response.issues) :
            response.issues[i].confidence
                <= MaxOfSeq(ConfidencesFor(response.issues[i].code, request.transcript)) + 10

Orderings(n) ==
    { p \in [1..n -> 1..n] : \A i, j \in 1..n : p[i] = p[j] => i = j }

Permute(transcript, p) == [ i \in 1..Len(transcript) |-> transcript[p[i]] ]

\* what C12 compares of a finding list: code, severity, urgency, confidence
Summary(issues) ==
    { << issues[i].code, issues[i].severity, issues[i].urgency, issues[i].confidence >> :
        i \in 1..Len(issues) }

\* C12: rule-based detection does not depend on the order of the lines: every
\* permutation of the transcript gives the same codes, each with the same
\* severity, urgency and confidence.
C12_OrderIndependent ==
    RuleBasedPath =>
        \A p \in Orderings(Len(request.transcript)) :
            Summary(RuleBased(Permute(request.transcript, p))) = Summary(response.issues)

\* the list detectConversation sorts: the answer of the model or the fold
Unsorted == SelectIssues(aiIssues, request.transcript)

HighUrgency(issues) == SelectSeq(issues, LAMBDA issue : issue.urgency = "high")

\* C14: the alerts are one critical alert per finding of urgency high; one
\* warning when there is no finding at all; none when there are findings but
\* none of urgency high.  needsScreening is true exactly without findings.
C14_Alerts ==
    Returned =>
        LET alerts == response.compliance.alerts
            high == HighUrgency(response.issues)
        IN  /\ response.compliance.needsScreening <=> response.issues = <<>>
            /\ Len(high) > 0 =>
                  /\ Len(alerts) = Len(high)
                  /\ \A i \in 1..Len(high) :
                        /\ alerts[i].severity = "critical"
                        /\ alerts[i].about = high[i].label
            /\ Len(high) = 0 /\ response.issues = <<>> =>
                  /\ Len(alerts) = 1
                  /\ alerts[1].severity = "warning"
            /\ Len(high) = 0 /\ response.issues # <<>> => alerts = <<>>

\* findings were returned, none of them urgent, and there is no alert
C14_Witness ==
    /\ Returned
    /\ response.issues # <<>>
    /\ HighUrgency(response.issues) = <<>>
    /\ response.compliance.alerts = <<>>
    /\ ~response.compliance.needsScreening

\* C15: completionRate is min(1, completed / required) x 100 with the defaults
\* 15 and 20, so it lies in [0, 100] for all non-negative counts, required = 0
\* included; with 20 of 20 and no findings it is 100.0 with needsScreening and
\* one warning alert.
C15_CompletionRate ==
    Returned =>
        LET rate == response.compliance.completionRate
            completed == Or(request.context.completedScreenings, 15)
            required == Or(request.context.requiredScreenings, 20)
        IN  /\ ~rate.nan
            /\ 0 <= rate.tenths /\ rate.tenths <= 1000
            /\ required > 0 /\ completed < required =>
                  /\ 2 * required * rate.tenths <= 2000 * completed + required
                  /\ 2 * required * (rate.tenths + 1) > 2000 * completed + required
            /\ required > 0 /\ completed >= required => rate.tenths = 1000
            /\ completed = 20 /\ required = 20 /\ response.issues = <<>> =>
                  /\ rate.tenths = 1000
                  /\ response.compliance.needsScreening
                  /\ Len(response.compliance.alerts) = 1
                  /\ response.compliance.alerts[1].severity = "warning"

WithText(transcript) == SelectSeq(transcript, LAMBDA message : message.hasText)

\* C17: a transcript line without its text is dropped silently: the
\* invocation raises nothing and returns the result of the remaining lines.
C17_LineWithoutTextDropped ==
    (pc \in {"done", "raised"} /\ ~AllLinesHaveText(request.transcript)) =>
        /\ pc = "done"
        /\ response = Respond([ request EXCEPT !.transcript = WithText(@) ], aiIssues)

\* C18: the transcript of the single line "Mi nevera está vacía casi siempre"
\* gives, on the rule-based path, a language set with "es" and a finding
\* Z59.41 matched through the Spanish pool.
C18_ScenarioB ==
    (RuleBasedPath /\ request.transcript = << MsgNevera >>) =>
        /\ "es" \in Range(response.documentation.structured.languages)
        /\ "Z59.41" \in CodesOf(response.issues)

BaseOf(code) ==
    LET i == CHOOSE i \in 1..Len(BASE_PATTERNS) : BASE_PATTERNS[i].code = code
    IN  BASE_PATTERNS[i].defaultConfidence

Urgent(message) == RegexTest(URGENT_HINTS, message.text)
Hedged(message) == RegexTest(HEDGE_HINTS, message.text)

\* base plus 8 with an urgency cue, minus 12 with a hedging cue, in hundredths
Stacked(code, message) ==
    BaseOf(code) + (IF Urgent(message) THEN 8 ELSE 0) - (IF Hedged(message) THEN 12 ELSE 0)

Clamped(c) == IF c < 40 THEN 40 ELSE IF c > 98 THEN 98 ELSE c

\* C19: the confidence the classifier gives a matching line is the base of
\* the pattern, plus 0.08 with an urgency cue and minus 0.12 with a hedging
\* cue, both when both are present, clamped to [0.40, 0.98]; the finding of
\* the single hedged line of Scenario A (base 0.78) ends below the base and
\* not below 0.40.
C19_ClassifierConfidence ==
    /\ classified # <<>> =>
          LET call == classified[1]
              stacked == call.base + (IF RegexTest(URGENT_HINTS, call.text) THEN 8 ELSE 0)
                           - (IF RegexTest(HEDGE_HINTS, call.text) THEN 12 ELSE 0)
          IN  call.confidence = Clamped(stacked)
    /\ RuleBasedPath =>
          /\ \A i \in 1..Len(request.transcript) :
                LET message == request.transcript[i]
                    matches == Matches[message]
                IN  \A k \in 1..Len(matches) :
                       matches[k].confidence = Clamped(Stacked(matches[k].code, message))
          /\ request.transcript = << MsgShutOff >> =>
                /\ Len(response.issues) = 1
                /\ response.issues[1].code = "Z59.1"
                /\ BaseOf("Z59.1") = 78
                /\ response.issues[1].confidence < 78
                /\ response.issues[1].confidence >= 40

\* adjustConfidence has been called on a text with both cues and the clamp
\* has cut its result
C19_Witness ==
    /\ classified # <<>>
    /\ RegexTest(URGENT_HINTS, classified[1].text)
    /\ RegexTest(HEDGE_HINTS, classified[1].text)
    /\ classified[1].confidence \in {40, 98}
    /\ classified[1].confidence # classified[1].base + 8 - 12

\* the language the language rule gives a line: its normalized tag, else
\* "es" with a Spanish mark in the text, else "en"
RuleLanguage(message) ==
    IF message.language # Missing THEN normalizeLanguage(message.language)
    ELSE IF \E i \in 1..Len(message.text) : message.text[i] \in DiacriticWords THEN "es"
    ELSE "en"

\* C20: the language set handed to the synthesizer is never empty and is the
\* set of the languages of the lines (the normalized tag, else "es" with a
\* Spanish diacritic or inverted mark in the text, else "en"); without lines
\* it is {"en"}.
C20_LanguageSet ==
    Returned =>
        LET languages == Range(response.documentation.structured.languages)
            transcript == request.transcript
        IN  /\ languages # {}
            /\ languages = IF transcript = <<>> THEN { "en" }
                           ELSE { RuleLanguage(transcript[i]) : i \in 1..Len(transcript) }

\* a returned transcript has an untagged line with a Spanish mark and a line
\* whose tag is not a known alias
C20_Witness ==
    /\ Returned
    /\ \E i \in 1..Len(request.transcript) :
          /\ request.transcript[i].language = Missing
          /\ RuleLanguage(request.transcript[i]) = "es"
    /\ \E i \in 1..Len(request.transcript) :
          /\ request.transcript[i].language # Missing
          /\ LowerTag(request.transcript[i].language) \notin DOMAIN LANGUAGE_ALIASES
    /\ Cardinality(Range(response.documentation.structured.languages)) = 2

\* what an invocation returns when it runs alone on the transcript it was given
Alone(i) ==
    Respond([ NoRequest EXCEPT !.transcript = inv[i].given ], inv[i].aiIssues).issues

\* C16: invocations share no mutable state: interleaved at the suspension
\* point, each returns the findings (with severity, urgency, status and
\* confidence) it returns when run alone, and no invocation changes the
\* transcript it was given or the pattern catalog.
C16_NoSharedState ==
    /\ \A i \in Invocations : inv[i].pc = "done" => inv[i].issues = Alone(i)
    /\ \A i \in Invocations : inv[i].pc # "idle" => heap[inv[i].object] = inv[i].given
    /\ catalog = BASE_PATTERNS

\* an invocation has returned rule-based findings while the other one, given
\* the same request object, is suspended on the inference call or on the
\* return of callOpenAI
C16_Witness ==
    \E i, j \in Invocations :
        /\ i # j
        /\ inv[i].pc = "done"
        /\ inv[i].aiIssues.isNull
        /\ inv[i].issues # <<>>
        /\ inv[j].pc \in {"awaiting", "settled"}
        /\ inv[j].object = inv[i].object

RECURSIVE MatchStatusesFor(_, _)
\* the statuses the matcher gave a code, line by line in transcript order
MatchStatusesFor(code, transcript) ==
    IF transcript = <<>> THEN <<>>
    ELSE LET hits == SelectSeq(Matches[Head(transcript)], LAMBDA m : m.code = code)
         IN  [ k \in 1..Len(hits) |-> hits[k].status ]
             \o MatchStatusesFor(code, Tail(transcript))

\* C24: when no line that contributed to a code is current, the status of
\* the code after the fold is the status of the last line that matched it: a
\* later historical overwrites an earlier resolved, and the reverse.
C24_LastMentionWins ==
    RuleBasedPath =>
        \A i \in 1..Len(response.issues) :
            LET statuses == MatchStatusesFor(response.issues[i].code, request.transcript)
            IN  "current" \notin Range(statuses) =>
                    /\ statuses # <<>>
                    /\ response.issues[i].status = statuses[Len(statuses)]

\* a returned finding whose lines were resolved, then historical, or the
\* reverse, and none current
C24_Witness ==
    /\ RuleBasedPath
    /\ \E i \in 1..Len(response.issues) :
          LET statuses == MatchStatusesFor(response.issues[i].code, request.transcript)
          IN  /\ Len(statuses) = 3
              /\ "current" \notin Range(statuses)
              /\ statuses[1] = "historical"
              /\ statuses[2] = "resolved"
              /\ statuses[3] = "historical"
              /\ response.issues[i].status = "historical"

HasCue(hints, message) == RegexTest(hints, message.text)

\* the status rule: resolution cues before past-reference cues
RuleStatus(message) ==
    IF HasCue(RESOLVED_HINTS, message) THEN "resolved"
    ELSE IF HasCue(HISTORICAL_HINTS, message) THEN "historical"
    ELSE "current"

\* C25: a line gets one status, resolution cues before past-reference cues:
\* resolved with a resolution cue, also next to a past-reference cue,
\* historical with a past-reference cue only, current otherwise; every
\* pattern the line matches gets that status.
C25_StatusPriority ==
    RuleBasedPath =>
        \A i \in 1..Len(request.transcript) :
            LET message == request.transcript[i]
                matches == Matches[message]
            IN  \A k \in 1..Len(matches) : matches[k].status = RuleStatus(message)

\* a returned transcript has a matching line with both kinds of cue and a
\* line with a past-reference cue that matches two patterns
C25_Witness ==
    /\ RuleBasedPath
    /\ \E i \in 1..Len(request.transcript) :
          LET message == request.transcript[i]
          IN  /\ HasCue(RESOLVED_HINTS, message)
              /\ HasCue(HISTORICAL_HINTS, message)
              /\ Matches[message] # <<>>
              /\ Matches[message][1].status = "resolved"
    /\ \E i \in 1..Len(request.transcript) :
          LET message == request.transcript[i]
          IN  /\ ~HasCue(RESOLVED_HINTS, message)
              /\ Len(Matches[message]) = 2
              /\ Matches[message][1].status = "historical"
              /\ Matches[message][2].status = "historical"

\* the finding a list holds for a code; the lists of a merge hold one at most
Held(issues, code) == issues[CHOOSE i \in 1..Len(issues) : issues[i].code = code]

\* C21: in a merge step, for a code on both sides, severity is high if
\* either side is high and the existing severity otherwise, and urgency
\* likewise: high stays high and an incoming value that is not high never
\* replaces the existing one.
C21_EscalateOnly ==
    merged # <<>> =>
        LET call == merged[1]
        IN  \A code \in CodesOf(call.existing) \cap CodesOf(call.incoming) :
                LET old == Held(call.existing, code)
                    new == Held(call.incoming, code)
                    out == Held(call.result, code)
                IN  /\ out.severity = IF "high" \in { old.severity, new.severity }
                                      THEN "high" ELSE old.severity
                    /\ out.urgency = IF "high" \in { old.urgency, new.urgency }
                                     THEN "high" ELSE old.urgency

\* a merge of a finding of moderate severity and high urgency with an
\* incoming finding of the same code that is low in both
C21_Witness ==
    /\ merged # <<>>
    /\ \E code \in CodesOf(merged[1].existing) \cap CodesOf(merged[1].incoming) :
          LET old == Held(merged[1].existing, code)
              new == Held(merged[1].incoming, code)
              out == Held(merged[1].result, code)
          IN  /\ old.severity = "moderate" /\ old.urgency = "high"
              /\ new.severity = "low" /\ new.urgency = "low"
              /\ out.severity = "moderate" /\ out.urgency = "high"

\* C22: mergeIssues neither loses nor invents codes and never lowers a
\* confidence: the codes of the result are those of the accumulator and of
\* the incoming findings, and the confidence of each is at least the larger
\* of the confidences the two sides hold for the code.
C22_MergeMonotone ==
    merged # <<>> =>
        LET call == merged[1]
        IN  /\ CodesOf(call.result) = CodesOf(call.existing) \cup CodesOf(call.incoming)
            /\ Len(call.result) = Cardinality(CodesOf(call.result))
            /\ \A i \in 1..Len(call.result) :
                  /\ \A k \in 1..Len(call.existing) :
                        call.existing[k].code = call.result[i].code =>
                            call.result[i].confidence >= call.existing[k].confidence
                  /\ \A k \in 1..Len(call.incoming) :
                        call.incoming[k].code = call.result[i].code =>
                            call.result[i].confidence >= call.incoming[k].confidence

\* Scenario C: the fold of a food line is merged with the match of a second
\* food line of lower confidence: one finding, two pieces of evidence
C22_Witness ==
    /\ merged # <<>>
    /\ merged[1].existing = RuleBased(<< MsgSinComida >>)
    /\ merged[1].incoming = Matches[MsgMissedMeals]
    /\ Len(merged[1].result) = 2
    /\ Held(merged[1].result, "Z59.41").confidence
          > Held(merged[1].incoming, "Z59.41").confidence
    /\ Len(Held(merged[1].result, "Z59.41").evidence) = 2

\* the confidence a code has before the bonus of a merge step
Carried(call, code) ==
    IF code \in CodesOf(call.existing) \cap CodesOf(call.incoming)
    THEN Max(Held(call.existing, code).confidence, Held(call.incoming, code).confidence)
    ELSE IF code \in CodesOf(call.existing) THEN Held(call.existing, code).confidence
    ELSE Held(call.incoming, code).confidence

\* C23: every merge step recomputes the confidence of every code of the
\* result, also of codes the line did not match and of codes just inserted,
\* as min(c + min(0.02 x evidence count, 0.10), 0.99), c being the larger of
\* the two sides or the stored confidence; so a finding just inserted does
\* not keep the confidence of the classifier.
C23_BonusOnEveryCode ==
    merged # <<>> =>
        LET call == merged[1]
        IN  \A i \in 1..Len(call.result) :
                LET out == call.result[i]
                    bonus == IF 2 * Len(out.evidence) < 10 THEN 2 * Len(out.evidence) ELSE 10
                    sum == Carried(call, out.code) + bonus
                IN  /\ out.confidence = IF sum < 99 THEN sum ELSE 99
                    /\ out.code \notin CodesOf(call.existing) =>
                          out.confidence > Held(call.incoming, out.code).confidence

\* a merge whose accumulator holds a code the line did not match and whose
\* line brings a new code: both confidences have moved
C23_Witness ==
    /\ merged # <<>>
    /\ \E code \in CodesOf(merged[1].existing) \ CodesOf(merged[1].incoming) :
          Held(merged[1].result, code).confidence
             > Held(merged[1].existing, code).confidence
    /\ \E code \in CodesOf(merged[1].incoming) \ CodesOf(merged[1].existing) :
          Held(merged[1].result, code).confidence
             > Held(merged[1].incoming, code).confidence

\* C26: re-delivering to bufferTranscript or ingestStreamPayload messages
\* that a call's buffer already holds does not grow the buffer, whether or
\* not the messages carry a timestamp or startTime
C26_RedeliveryIdempotent == result.again => result.grew = 0

\* a message of a call is in its buffer or in its stored transcript
Kept(c, message) ==
    \E kept \in Range(transcriptBuffers[c].messages) \cup Range(stored[c]) :
       kept.text = message.text /\ kept.timestamp = message.timestamp

\* C27: a message the status callback drained from the buffer of a call is
\* in the buffer or in the stored transcript of the call once the callback
\* is over, also when the update of the row failed
C27_NoMessageLost ==
    handler.pc = "failed" =>
        \A message \in Range(handler.buffered) : Kept(handler.callSid, message)

\* the status callback runs finalizeTranscript in this step
Finalizes == handler.pc = "selecting" /\ handler'.pc \in { "detecting", "updating" }

\* C28: finalizeTranscript(callSid) returns the messages buffered for the
\* call in their order, leaves no buffer and no stream identifier for it, and
\* leaves the buffers and stream identifiers of every other call as they were
C28_FinalizeLeavesNoState ==
    [][ Finalizes =>
          LET c == handler.callSid
          IN  /\ handler'.buffered = transcriptBuffers[c].messages
              /\ transcriptBuffers'[c].messages = <<>>
              /\ \A sid \in StreamSids : streamToCall'[sid] # c
              /\ \A other \in CallKeys \ { c } :
                    transcriptBuffers'[other] = transcriptBuffers[other]
              /\ \A sid \in StreamSids :
                    streamToCall[sid] # c => streamToCall'[sid] = streamToCall[sid] ]_vars

\* finalizeTranscript has returned two messages of CA1 while CA2 holds a
\* buffer and a stream
C28_Witness ==
    /\ handler.pc = "detecting"
    /\ handler.callSid = "CA1"
    /\ Len(handler.buffered) = 2
    /\ transcriptBuffers["CA1"] = NoBuffer
    /\ transcriptBuffers["CA2"].messages # <<>>
    /\ streamToCall["MZ2"] = "CA2"
    /\ streamToCall["MZ1"] = Missing

\* C29: the appended count ingestStreamPayload returns is the number of
\* messages by which the buffer of the call grew
C29_AppendedIsGrowth == result.via = "stream" => result.appended = result.grew

\* C30: normalizeSpeaker gives a buffered speaker back unchanged, so a
\* message that is normalized again keeps its speaker
C30_NormalizeIdempotent ==
    \A c \in CallKeys :
       \A message \in Range(transcriptBuffers[c].messages) :
          normalizeSpeaker(message.speaker, "participant") = message.speaker

====
